---- MODULE Spec2Model ----
(***************************************************************************)
(* A model of the stargazer library: the landmark detector                 *)
(* (src/src/LandmarkFinder.cpp) and the pose estimator                     *)
(* (src/src/CeresLocalizer.cpp).                                           *)
(*                                                                         *)
(* Five specifications share the module's variables:                       *)
(*   SpecLocalizer  CeresLocalizer: constructor, then UpdatePose calls     *)
(*   SpecClusters   LandmarkFinder::FindClusters on bounded point lists    *)
(*   SpecFinder     LandmarkFinder::DetectLandmarks on bounded frames      *)
(*   SpecSort       LandmarkFinder::parallel_vector_sort on bounded ids    *)
(*   SpecCorners    LandmarkFinder::FindCorners, the configuration varied  *)
(* Each leaves the variables of the other components at their initial      *)
(* values.                                                                 *)
(***************************************************************************)
EXTENDS Integers, Sequences, FiniteSets, TLC

VARIABLES
    \* ---- CeresLocalizer (one instance) ----
    landmarks,          \* Localizer::landmarks after the constructor (world coordinates)
    estimate_2d_pose,   \* CeresLocalizer::estimate_2d_pose
    z_upper_bound,      \* CeresLocalizer::z_upper_bound
    is_initialized,     \* CeresLocalizer::is_initialized
    ego_pose,           \* Localizer::ego_pose: [position, orientation]
    problem,            \* ceres::Problem: residual blocks, parameter blocks, bounds, parameterizations
    is_local_parametrization_set,  \* the function-local static of UpdatePose
    nUpdates,           \* number of UpdatePose calls made so far (history)
    nNonEmpty,          \* number of UpdatePose calls with a non-empty vector so far (history)
    nSeedings,          \* number of UpdatePose calls that ran the seeding of lines 62-71 (history)
    nQuaternion,        \* number of times the quaternion parameterization was set on this problem (history)
    last,               \* the last UpdatePose call: its input, the state before it, what it did (history)
    \* ---- one run of LandmarkFinder::FindClusters ----
    cl_points,          \* points_in
    cl_radius,          \* radiusThreshold
    cl_limits,          \* <<minPointsThreshold, maxPointsThreshold>>
    cl_next,            \* index of the point the outer loop handles next
    cl_clusters,        \* clusters: each cluster the input indices of its points, in push_back order
    cl_pre,             \* the clusters as they were when the size filter started (history)
    cl_pc,              \* "loop", "filter" or "done"
    \* ---- LandmarkFinder (one instance) and its caller ----
    valid_ids_,         \* LandmarkFinder::valid_ids_
    grayImage_,         \* LandmarkFinder::grayImage_
    clusteredPixels_,   \* LandmarkFinder::clusteredPixels_
    clusteredPoints_,   \* LandmarkFinder::clusteredPoints_
    landmarkHypotheses_,  \* LandmarkFinder::landmarkHypotheses_
    detected_landmarks, \* the caller's vector handed to DetectLandmarks by reference
    dl_ret,             \* the value the last DetectLandmarks call returned
    nFrames,            \* number of DetectLandmarks calls made so far (history)
    claimed_earlier,    \* the identities that outputs of calls before the last one carried (history)
    \* ---- one call of LandmarkFinder::parallel_vector_sort ----
    pvs_ids,            \* ids
    pvs_points,         \* points
    pvs_stepsize,       \* stepsize
    pvs_in,             \* the two vectors as they were handed in (history)
    pvs_pc,             \* "loop" while the while loop runs, "done" after it
    \* ---- one call of LandmarkFinder::FindCorners ----
    fc_point_list,      \* point_list
    fc_cutoff,          \* LandmarkFinder::cornerHypothesesCutoff, a rational <<num, den>>
    fc_maxHyp,          \* LandmarkFinder::maxCornerHypotheses
    fc_hypotheses,      \* hypotheses
    fc_pc               \* "call" before the call, "done" after it

locVars == <<landmarks, estimate_2d_pose, z_upper_bound, is_initialized, ego_pose,
             problem, is_local_parametrization_set, nUpdates, nNonEmpty, nSeedings, nQuaternion, last>>

clVars == <<cl_points, cl_radius, cl_limits, cl_next, cl_clusters, cl_pre, cl_pc>>

fdVars == <<valid_ids_, grayImage_, clusteredPixels_, clusteredPoints_, landmarkHypotheses_,
            detected_landmarks, dl_ret, nFrames, claimed_earlier>>

pvsVars == <<pvs_ids, pvs_points, pvs_stepsize, pvs_in, pvs_pc>>

fcVars == <<fc_point_list, fc_cutoff, fc_maxHyp, fc_hypotheses, fc_pc>>

vars == <<locVars, clVars, fdVars, pvsVars, fcVars>>

(***************************************************************************)
(* Helpers.                                                                *)
(***************************************************************************)
Abs(n) == IF n < 0 THEN -n ELSE n

Min2(a, b) == IF a < b THEN a ELSE b

RECURSIVE GCD(_, _)
GCD(a, b) == IF b = 0 THEN a ELSE GCD(b, a % b)

RECURSIVE SumSeq(_)
SumSeq(s) == IF s = <<>> THEN 0 ELSE Head(s) + SumSeq(Tail(s))

SetMin(S) == CHOOSE m \in S : \A x \in S : m <= x

(***************************************************************************)
(* Exact rationals <<numerator, denominator>>, denominator > 0, in lowest   *)
(* terms: the x and y of the ego position are doubles that UpdatePose       *)
(* divides by the observation count.                                       *)
(***************************************************************************)
RatNorm(n, d) ==
    LET g == GCD(Abs(n), d)
    IN  IF n = 0 THEN <<0, 1>> ELSE <<n \div g, d \div g>>

RatOfInt(n) == <<n, 1>>

\* r + k, k an integer
RatAddInt(r, k) == RatNorm(r[1] + k * r[2], r[2])

\* r / n, n a positive integer
RatDivInt(r, n) == RatNorm(r[1], r[2] * n)

(***************************************************************************)
(* Bounds of the model.                                                    *)
(***************************************************************************)
\* UpdatePose calls per behaviour
MaxUpdates == 2

\* observations per UpdatePose call
MaxObs == 2

\* points handed to one FindClusters run
MaxPoints == 4

\* DetectLandmarks calls per behaviour
MaxFrames == 2

\* id points handed to one parallel_vector_sort call
MaxSortLen == 4


(***************************************************************************)
(* CeresLocalizer                                                          *)
(*                                                                         *)
(* A position is <<x, y, z>> with x and y exact rationals and z an         *)
(* integer; an orientation is a quaternion <<w, x, y, z>> of integers.     *)
(* An observation (ImgLandmark) is [nID, corners, idPoints] where corners  *)
(* and idPoints are the sizes of the two point vectors: the pixel          *)
(* coordinates only parameterise the cost functors handed to the solver,   *)
(* whose result is a nondeterministic choice here.                         *)
(***************************************************************************)
NUM_CORNERS == 3

\* The identities of the map.
MapIds == {1, 2}

\* A landmark of the map file with n points, already in world coordinates
\* (the constructor's loop, lines 37-50, has replaced each point).
LandmarkAt(x, y, z, n) ==
    [pose   |-> [position |-> <<x, y, z>>],
     points |-> [k \in 1..n |-> <<x + (k % 2), y + (k \div 2), z>>]]

\* The maps the model is constructed with: landmark 1 has 5 points, landmark 2
\* has 6, and the ceiling height of landmark 1 varies.
MapSet ==
    { [id \in MapIds |-> IF id = 1 THEN LandmarkAt(x1, 2, z1, NUM_CORNERS + 2)
                                   ELSE LandmarkAt(4, 1, 3, NUM_CORNERS + 3)] :
        x1 \in {1, 3}, z1 \in {0, 3} }

\* The pose a Localizer starts with (Localizer's constructor): the origin and
\* the identity quaternion.
DefaultPose == [position |-> <<RatOfInt(0), RatOfInt(0), 0>>, orientation |-> <<1, 0, 0, 0>>]

\* z_upper_bound as the constructor computes it: the minimum world z over all
\* points of all landmarks, minus 1.
ZUpperBound(lms) ==
    SetMin(UNION { { lms[id].points[k][3] : k \in DOMAIN lms[id].points } : id \in DOMAIN lms }) - 1

EmptyProblem ==
    [residual_blocks             |-> {},
     parameter_blocks            |-> {},
     upper_bound                 |-> <<>>,
     position_parameterization   |-> "none",
     orientation_parameterization |-> "none",
     camera_constant             |-> FALSE]

\* The observations a frame can hold: identities of the map (the detector only
\* emits identities of its valid list), three corners, two or three id points.
ObsSet == [nID : MapIds, corners : {NUM_CORNERS}, idPoints : {2, 3}]

\* A detector output holds each identity at most once.
DistinctIds(f) == \A i, j \in DOMAIN f : i # j => f[i].nID # f[j].nID

FrameSet ==
    { f \in UNION { [1..n -> ObsSet] : n \in 0..MaxObs } : DistinctIds(f) }

\* Line 111: the observation's point count differs from the map landmark's.
PointCountMismatch(lms, img_lm) ==
    img_lm.idPoints + img_lm.corners # Len(lms[img_lm.nID].points)

\* The index of the first observation with a mismatch, 0 when there is none.
FirstMismatch(lms, img_landmarks) ==
    IF \E i \in DOMAIN img_landmarks : PointCountMismatch(lms, img_landmarks[i])
    THEN SetMin({ i \in DOMAIN img_landmarks : PointCountMismatch(lms, img_landmarks[i]) })
    ELSE 0

\* SeedPosition without the division by the number of observations.
SeedPositionNoDivide(lms, pose, img_landmarks) ==
    LET n  == Len(img_landmarks)
        sx == SumSeq([i \in 1..n |-> lms[img_landmarks[i].nID].pose.position[1]])
        sy == SumSeq([i \in 1..n |-> lms[img_landmarks[i].nID].pose.position[2]])
    IN  [pose EXCEPT !.position =
            <<RatAddInt(pose.position[1], sx), RatAddInt(pose.position[2], sy), pose.position[3]>>]

\* Lines 62-71: add the matched landmarks' world x/y to the position, divide
\* by the number of observations.
SeedPosition(lms, pose, img_landmarks) ==
    LET n  == Len(img_landmarks)
        sx == SumSeq([i \in 1..n |-> lms[img_landmarks[i].nID].pose.position[1]])
        sy == SumSeq([i \in 1..n |-> lms[img_landmarks[i].nID].pose.position[2]])
    IN  [pose EXCEPT !.position =
            <<RatDivInt(RatAddInt(pose.position[1], sx), n),
              RatDivInt(RatAddInt(pose.position[2], sy), n),
              pose.position[3]>>]

\* ClearResidualBlocks that removes nothing.
ClearResidualBlocksKeeps(prob) == prob

\* Lines 100-106: every residual block is removed; the parameter blocks stay.
ClearResidualBlocks(prob) == [prob EXCEPT !.residual_blocks = {}]

\* Lines 121-145: the residual blocks of observation i of update `frame`, one
\* per corner.
ResidualsOf(frame, i, img_lm) ==
    { [frame |-> frame, obs |-> i, nID |-> img_lm.nID, k |-> k] : k \in 1..NUM_CORNERS }

\* Lines 109-146: the loop over the observations; it returns at the first
\* mismatch and keeps what it added before.
AddedResiduals(lms, frame, img_landmarks) ==
    LET m    == FirstMismatch(lms, img_landmarks)
        upto == IF m = 0 THEN Len(img_landmarks) ELSE m - 1
    IN  UNION { ResidualsOf(frame, i, img_landmarks[i]) : i \in 1..upto }

\* AddResidualBlocks with a mismatch putting the estimator back to Uninitialized.
AddResidualBlocksResetsOnMismatch(lms, planar, frame, st, img_landmarks) ==
    LET added == AddedResiduals(lms, frame, img_landmarks)
        prob1 == [st.problem EXCEPT
                    !.residual_blocks  = @ \cup added,
                    !.parameter_blocks = IF added = {} THEN @
                                         ELSE @ \cup {"position", "orientation", "camera_intrinsics"}]
    IN  IF FirstMismatch(lms, img_landmarks) # 0
        THEN [st EXCEPT !.problem = prob1, !.is_initialized = FALSE]
        ELSE [st EXCEPT !.problem = prob1, !.is_initialized = TRUE]

\* Lines 108-165. st is [problem, ego_pose, is_initialized].
AddResidualBlocks(lms, planar, frame, st, img_landmarks) ==
    LET added == AddedResiduals(lms, frame, img_landmarks)
        prob1 == [st.problem EXCEPT
                    !.residual_blocks  = @ \cup added,
                    !.parameter_blocks = IF added = {} THEN @
                                         ELSE @ \cup {"position", "orientation", "camera_intrinsics"}]
    IN  IF FirstMismatch(lms, img_landmarks) # 0
        THEN [st EXCEPT !.problem = prob1]                       \* line 117: return
        ELSE IF st.is_initialized
        THEN [st EXCEPT !.problem = prob1]
        ELSE IF planar
        THEN [problem |-> [prob1 EXCEPT !.position_parameterization = "subset",
                                         !.orientation_parameterization = "subset"],
              ego_pose |-> [position    |-> <<st.ego_pose.position[1], st.ego_pose.position[2], 0>>,
                            orientation |-> <<st.ego_pose.orientation[1], 0, 0, st.ego_pose.orientation[4]>>],
              is_initialized |-> TRUE]
        ELSE [st EXCEPT !.problem = prob1, !.is_initialized = TRUE]

\* What ceres::Solve may leave in the position: any of these x/y, and a z
\* from SolverZs that respects the upper bound.
SolverXYs == { <<RatOfInt(5), RatOfInt(5)>> }

SolverZs == { -2, 0 }

SolverOrientations == { <<1, 0, 0, 0>>, <<0, 0, 0, 1>>, <<0, 1, 0, 0>> }

\* Lines 167-179: ceres::Solve on the problem as it stands. ceres is external;
\* it is modelled by its contract. With no residual block there is nothing to
\* minimise and the parameters are left alone. Otherwise the parameters move
\* to some point that respects what was set on the problem: a component with
\* an upper bound ends at or below it (ceres projects onto the bounds), a
\* component held constant by a subset parameterization only moves by that
\* projection.
Optimize(prob, pose) ==
    IF prob.residual_blocks = {}
    THEN { pose }
    ELSE LET zs == IF prob.position_parameterization = "subset"
                   THEN { pose.position[3] }
                   ELSE SolverZs
             zb == IF prob.upper_bound = <<>>
                   THEN zs
                   ELSE { Min2(z, prob.upper_bound[1]) : z \in zs }
             os == IF prob.orientation_parameterization = "subset"
                   THEN { o \in SolverOrientations : o[2] = pose.orientation[2] /\ o[3] = pose.orientation[3] }
                   ELSE SolverOrientations
         IN  { [position |-> <<xy[1], xy[2], z>>, orientation |-> o] :
                   xy \in SolverXYs, z \in zb, o \in os }

\* SetUpperBound that never bounds z.
SetUpperBoundDropped(prob, zub) == prob

\* Lines 79-82: the upper bound on z, set when the position is a parameter
\* block of the problem.
SetUpperBound(prob, zub) ==
    IF "position" \in prob.parameter_blocks
    THEN [prob EXCEPT !.upper_bound = <<zub>>]
    ELSE prob

\* Lines 84-90: the quaternion parameterization, guarded by the static flag.
\* Returns <<problem, flag>>.
SetQuaternionParameterization(prob, flag) ==
    IF "orientation" \in prob.parameter_blocks /\ ~flag
    THEN <<[prob EXCEPT !.orientation_parameterization = "quaternion"], TRUE>>
    ELSE <<prob, flag>>

\* Lines 92-94.
SetCameraConstant(prob) ==
    IF "camera_intrinsics" \in prob.parameter_blocks
    THEN [prob EXCEPT !.camera_constant = TRUE]
    ELSE prob

\* What `last` records of the state an UpdatePose call starts in.
Snapshot ==
    [ego_pose |-> ego_pose, is_initialized |-> is_initialized, problem |-> problem]

\* UpdatePoseEmpty returning only after the old residual blocks are deleted.
UpdatePoseEmptyClears ==
    /\ UNCHANGED <<landmarks, estimate_2d_pose, z_upper_bound, is_initialized, ego_pose,
                   is_local_parametrization_set, nNonEmpty, nSeedings, nQuaternion>>
    /\ problem' = ClearResidualBlocks(problem)
    /\ last' = [img_landmarks |-> <<>>, pre |-> Snapshot, solver_ran |-> FALSE,
                solver_start |-> ego_pose, frame |-> nUpdates + 1]

\* Lines 57-60: the empty vector returns at once.
UpdatePoseEmpty ==
    /\ UNCHANGED <<landmarks, estimate_2d_pose, z_upper_bound, is_initialized, ego_pose,
                   problem, is_local_parametrization_set, nNonEmpty, nSeedings, nQuaternion>>
    /\ last' = [img_landmarks |-> <<>>, pre |-> Snapshot, solver_ran |-> FALSE,
                solver_start |-> ego_pose, frame |-> nUpdates + 1]

\* Lines 62-71: the seeding runs while is_initialized is false.
Seeded(lms, init, pose, img_landmarks) ==
    IF ~init THEN SeedPosition(lms, pose, img_landmarks) ELSE pose

\* Lines 62-98 for a non-empty vector.
UpdatePoseNonEmpty(img_landmarks) ==
    LET frame   == nUpdates + 1
        seeded  == Seeded(landmarks, is_initialized, ego_pose, img_landmarks)
        cleared == ClearResidualBlocks(problem)
        st      == AddResidualBlocks(landmarks, estimate_2d_pose, frame,
                       [problem |-> cleared, ego_pose |-> seeded, is_initialized |-> is_initialized],
                       img_landmarks)
        bounded == SetUpperBound(st.problem, z_upper_bound)
        quat    == SetQuaternionParameterization(bounded, is_local_parametrization_set)
        prob    == SetCameraConstant(quat[1])
    IN  /\ problem' = prob
        /\ is_local_parametrization_set' = quat[2]
        /\ is_initialized' = st.is_initialized
        /\ ego_pose' \in Optimize(prob, st.ego_pose)
        /\ nNonEmpty' = nNonEmpty + 1
        /\ nSeedings' = IF ~is_initialized THEN nSeedings + 1 ELSE nSeedings
        /\ nQuaternion' = IF quat[1] # bounded THEN nQuaternion + 1 ELSE nQuaternion
        /\ last' = [img_landmarks |-> img_landmarks, pre |-> Snapshot, solver_ran |-> TRUE,
                    solver_start |-> st.ego_pose, frame |-> frame]
        /\ UNCHANGED <<landmarks, estimate_2d_pose, z_upper_bound>>

\* CeresLocalizer::UpdatePose, lines 56-98.
UpdatePose ==
    /\ nUpdates < MaxUpdates
    /\ nUpdates' = nUpdates + 1
    /\ \E img_landmarks \in FrameSet :
          IF img_landmarks = <<>>
          THEN UpdatePoseEmpty
          ELSE UpdatePoseNonEmpty(img_landmarks)

\* No FindClusters run is modelled.
\* cv::Mat's default constructor: no data.
NoImage == [data |-> FALSE, cols |-> 0, rows |-> 0, nonZero |-> {}, bright |-> {}]

FinderIdle ==
    /\ valid_ids_ = <<>>
    /\ grayImage_ = NoImage
    /\ clusteredPixels_ = <<>>
    /\ clusteredPoints_ = <<>>
    /\ landmarkHypotheses_ = <<>>
    /\ detected_landmarks = <<>>
    /\ dl_ret = 0
    /\ nFrames = 0
    /\ claimed_earlier = {}

\* No parallel_vector_sort call is modelled.
SortIdle ==
    /\ pvs_ids = <<>>
    /\ pvs_points = <<>>
    /\ pvs_stepsize = 0
    /\ pvs_in = [ids |-> <<>>, points |-> <<>>]
    /\ pvs_pc = "done"

\* No separate FindCorners call is modelled; the configuration is the
\* constructor's (lines 46-47).
CornersIdle ==
    /\ fc_point_list = <<>>
    /\ fc_cutoff = <<1, 1>>
    /\ fc_maxHyp = 10
    /\ fc_hypotheses = <<>>
    /\ fc_pc = "done"

ClustersIdle ==
    /\ cl_points = <<>>
    /\ cl_radius = 0
    /\ cl_limits = <<0, 0>>
    /\ cl_next = 1
    /\ cl_clusters = <<>>
    /\ cl_pre = <<>>
    /\ cl_pc = "done"

\* The state after CeresLocalizer's constructor, lines 29-54.
InitLocalizer ==
    /\ landmarks \in MapSet
    /\ estimate_2d_pose \in BOOLEAN
    /\ z_upper_bound = ZUpperBound(landmarks)
    /\ is_initialized = FALSE
    /\ ego_pose = DefaultPose
    /\ problem = EmptyProblem
    /\ is_local_parametrization_set = FALSE
    /\ nUpdates = 0
    /\ nNonEmpty = 0
    /\ nSeedings = 0
    /\ nQuaternion = 0
    /\ last = [img_landmarks |-> <<>>,
               pre |-> [ego_pose |-> DefaultPose, is_initialized |-> FALSE, problem |-> EmptyProblem],
               solver_ran |-> FALSE, solver_start |-> DefaultPose, frame |-> 0]
    /\ ClustersIdle
    /\ FinderIdle
    /\ SortIdle
    /\ CornersIdle

\* Lines 85-90 in an UpdatePose call of another CeresLocalizer of the same
\* process, made with an observation that matches that instance's map: the
\* flag is a function-local static, the one object all instances share.
UpdatePoseOtherInstance ==
    /\ is_local_parametrization_set' = TRUE
    /\ UNCHANGED <<landmarks, estimate_2d_pose, z_upper_bound, is_initialized, ego_pose,
                   problem, nUpdates, nNonEmpty, nSeedings, nQuaternion, last>>

NextLocalizer == (UpdatePose \/ UpdatePoseOtherInstance) /\ UNCHANGED <<clVars, fdVars, pvsVars, fcVars>>

SpecLocalizer == InitLocalizer /\ [][NextLocalizer]_vars

(***************************************************************************)
(* Claims about CeresLocalizer, under SpecLocalizer.                       *)
(***************************************************************************)
\* The last call was an UpdatePose with an empty vector.
LastEmpty == last.frame > 0 /\ last.img_landmarks = <<>>

\* The last call was an UpdatePose with a non-empty vector.
LastNonEmpty == last.frame > 0 /\ last.img_landmarks # <<>>

\* The last call held an observation whose point count differs from the map's.
LastMismatch == LastNonEmpty /\ FirstMismatch(landmarks, last.img_landmarks) # 0

\* The residual blocks in the problem that the last call built.
ResidualsOfLastFrame == { r \in problem.residual_blocks : r.frame = last.frame }

\* C2: an UpdatePose whose non-empty observation set holds a point-count
\* mismatch leaves the ego pose (position and orientation) as it was before
\* the call, in every estimator state.
C2_PoseKeptOnMismatch ==
    LastMismatch => ego_pose = last.pre.ego_pose

\* C3: when an update detects a point-count mismatch, no residual block built
\* from that frame's observations is in the problem when the update ends, and
\* the solver has not been run on a partially built problem.
C3_NoPartialCommit ==
    LastMismatch =>
        /\ ResidualsOfLastFrame = {}
        /\ ~(last.solver_ran /\ problem.residual_blocks # {})

\* C4: an UpdatePose with an empty observation set changes neither the ego
\* pose, nor the Uninitialized/Tracking flag, nor the residual blocks of the
\* problem, and does not run the solver.
C4_EmptyUpdateIsNoOp ==
    LastEmpty =>
        /\ ego_pose = last.pre.ego_pose
        /\ is_initialized = last.pre.is_initialized
        /\ problem.residual_blocks = last.pre.problem.residual_blocks
        /\ ~last.solver_ran

\* C4's case: an empty update of a Tracking estimator whose problem holds the
\* residual blocks of the update before.
C4_Witness ==
    LastEmpty /\ is_initialized /\ problem.residual_blocks # {}

\* C6 as stated: after the first non-empty update and after every later
\* update the z of the ego position is at most z_upper_bound.
C6_ZBoundAfterFirstNonEmpty ==
    nNonEmpty >= 1 => ego_pose.position[3] <= z_upper_bound

\* C6 as amended: from the end of the first update that adds a residual block
\* (which makes the position a parameter block of the problem, so that the
\* bound is set and the solver runs under it), the z of the ego position is at
\* most z_upper_bound.
C6_ZBoundOncePositionInProblem ==
    "position" \in problem.parameter_blocks => ego_pose.position[3] <= z_upper_bound

\* C6's case: the update started with z above the bound and the position in
\* no problem yet, and ended with a solved pose.
C6_Witness ==
    /\ LastNonEmpty
    /\ last.pre.ego_pose.position[3] > z_upper_bound
    /\ "position" \notin last.pre.problem.parameter_blocks
    /\ "position" \in problem.parameter_blocks
    /\ ego_pose.position[3] <= z_upper_bound

\* C7: the estimator starts Uninitialized, leaves Uninitialized only inside an
\* update with a non-empty observation set, and never returns from Tracking to
\* Uninitialized, whatever UpdatePose calls follow.
C7_TrackingIsIrreversible ==
    /\ is_initialized = FALSE
    /\ [][ /\ is_initialized \in BOOLEAN
           /\ is_initialized => is_initialized'
           /\ (~is_initialized /\ is_initialized') => last'.img_landmarks # <<>> ]_vars

\* C7's case: a Tracking estimator that has just been through an update with a
\* point-count mismatch.
C7_Witness ==
    is_initialized /\ last.pre.is_initialized /\ LastMismatch

\* The sum of the world x (c = 1) or y (c = 2) of the map landmarks the
\* observations of f name.
MatchedSum(f, c) == SumSeq([i \in 1..Len(f) |-> landmarks[f[i].nID].pose.position[c]])

C14_ResidualsOfThisFrameOnly ==
    (LastNonEmpty /\ ~LastMismatch) =>
        /\ problem.residual_blocks =
              UNION { ResidualsOf(last.frame, i, last.img_landmarks[i]) : i \in DOMAIN last.img_landmarks }
        /\ Cardinality(problem.residual_blocks) = 3 * Len(last.img_landmarks)

\* Such an update has run on a problem that held residual blocks of an
\* earlier update.
C14_Witness ==
    /\ LastNonEmpty /\ ~LastMismatch
    /\ last.pre.problem.residual_blocks # {}
    /\ Len(last.img_landmarks) = 2

\* C15: the quaternion parameterization is set on this estimator's problem
\* exactly once, in the update that makes the orientation a parameter block
\* of the problem, and never again; what other estimators of the process do
\* makes no difference.
C15_QuaternionOncePerInstance ==
    /\ nQuaternion <= 1
    /\ "orientation" \in problem.parameter_blocks => nQuaternion = 1

\* C17: over the lifetime of an estimator at most one UpdatePose call runs the
\* position seeding; a first non-empty update that ends in a point-count
\* mismatch is not followed by a seeding that starts from the position the
\* first one left.
C17_SeedingAtMostOnce == nSeedings <= 1

(***************************************************************************)
(* LandmarkFinder::FindClusters                                            *)
(*                                                                         *)
(* A point is <<x, y>>, a cv::Point of integers. A cluster is the sequence *)
(* of the input indices of its points, so that two equal points of the     *)
(* input stay apart; the code stores copies of the points themselves.      *)
(***************************************************************************)
\* The squared Euclidean distance of two points.
Dist2(a, b) == (a[1] - b[1]) * (a[1] - b[1]) + (a[2] - b[2]) * (a[2] - b[2])

\* Line 166: cv::norm(clusterPoint - thisPoint) <= radiusThreshold, for an
\* integer radius.
WithinRadius(a, b, r) == Dist2(a, b) <= r * r

\* Lines 164-171: some point of the cluster lies within the radius of point i.
ClusterAccepts(pts, cluster, i, r) ==
    \E k \in DOMAIN cluster : WithinRadius(pts[cluster[k]], pts[i], r)

\* Lines 163-175: the clusters are scanned from the last created to the first;
\* the result is the index of the first one that accepts point i, 0 if none.
RECURSIVE ScanReverse(_, _, _, _, _)
ScanReverse(pts, clusters, c, i, r) ==
    IF c = 0 THEN 0
    ELSE IF ClusterAccepts(pts, clusters[c], i, r) THEN c
    ELSE ScanReverse(pts, clusters, c - 1, i, r)

\* The scan from the first created cluster to the last.
RECURSIVE ScanForward(_, _, _, _, _)
ScanForward(pts, clusters, c, i, r) ==
    IF c > Len(clusters) THEN 0
    ELSE IF ClusterAccepts(pts, clusters[c], i, r) THEN c
    ELSE ScanForward(pts, clusters, c + 1, i, r)

\* InsertPoint scanning the clusters oldest first.
InsertPointOldestFirst(pts, clusters, i, r) ==
    LET c == ScanForward(pts, clusters, 1, i, r)
    IN  IF c = 0
        THEN Append(clusters, <<i>>)
        ELSE [clusters EXCEPT ![c] = Append(@, i)]

\* InsertPoint without the break of line 173: every cluster that accepts the
\* point gets it.
InsertPointNoBreak(pts, clusters, i, r) ==
    IF \E c \in DOMAIN clusters : ClusterAccepts(pts, clusters[c], i, r)
    THEN [c \in DOMAIN clusters |->
            IF ClusterAccepts(pts, clusters[c], i, r) THEN Append(clusters[c], i) ELSE clusters[c]]
    ELSE Append(clusters, <<i>>)

\* Lines 158-183, one pass of the outer loop: point i joins the most recently
\* created cluster that accepts it, or founds a new cluster.
InsertPoint(pts, clusters, i, r) ==
    LET c == ScanReverse(pts, clusters, Len(clusters), i, r)
    IN  IF c = 0
        THEN Append(clusters, <<i>>)
        ELSE [clusters EXCEPT ![c] = Append(@, i)]

\* Lines 158-183: the outer loop from point i on.
RECURSIVE InsertFrom(_, _, _, _)
InsertFrom(pts, clusters, i, r) ==
    IF i > Len(pts) THEN clusters
    ELSE InsertFrom(pts, InsertPoint(pts, clusters, i, r), i + 1, r)

\* Lines 186-191: the clusters whose size is outside [lo, hi] are erased.
RECURSIVE SizeFilter(_, _, _)
SizeFilter(clusters, lo, hi) ==
    IF clusters = <<>> THEN <<>>
    ELSE LET rest == SizeFilter(Tail(clusters), lo, hi)
         IN  IF lo > Len(Head(clusters)) \/ hi < Len(Head(clusters))
             THEN rest
             ELSE <<Head(clusters)>> \o rest

\* Lines 154-192 as one function: the clusters (of input indices) left in
\* `clusters` by FindClusters.
FindClusters(pts, clusters, r, lo, hi) == SizeFilter(InsertFrom(pts, clusters, 1, r), lo, hi)

\* The points a run is given.
PointGrid == { <<x, y>> : x \in 0..2, y \in 0..1 }

PointLists == UNION { [1..n -> PointGrid] : n \in 0..MaxPoints }

\* The <<minPointsThreshold, maxPointsThreshold>> pairs of the runs.
LimitSet == { <<1, 2>>, <<2, 3>> }

\* One pass of the outer loop.
ClusterStep ==
    /\ cl_pc = "loop"
    /\ cl_next <= Len(cl_points)
    /\ cl_clusters' = InsertPoint(cl_points, cl_clusters, cl_next, cl_radius)
    /\ cl_next' = cl_next + 1
    /\ UNCHANGED <<cl_points, cl_radius, cl_limits, cl_pre, cl_pc>>

\* The outer loop ends.
ClusterLoopEnd ==
    /\ cl_pc = "loop"
    /\ cl_next > Len(cl_points)
    /\ cl_pc' = "filter"
    /\ UNCHANGED <<cl_points, cl_radius, cl_limits, cl_next, cl_clusters, cl_pre>>

\* Lines 186-191.
ClusterFilter ==
    /\ cl_pc = "filter"
    /\ cl_pre' = cl_clusters
    /\ cl_clusters' = SizeFilter(cl_clusters, cl_limits[1], cl_limits[2])
    /\ cl_pc' = "done"
    /\ UNCHANGED <<cl_points, cl_radius, cl_limits, cl_next>>

\* The localizer is not part of a FindClusters run.
LocalizerIdle ==
    /\ landmarks = CHOOSE m \in MapSet : TRUE
    /\ estimate_2d_pose = FALSE
    /\ z_upper_bound = ZUpperBound(landmarks)
    /\ is_initialized = FALSE
    /\ ego_pose = DefaultPose
    /\ problem = EmptyProblem
    /\ is_local_parametrization_set = FALSE
    /\ nUpdates = 0
    /\ nNonEmpty = 0
    /\ nSeedings = 0
    /\ nQuaternion = 0
    /\ last = [img_landmarks |-> <<>>,
               pre |-> [ego_pose |-> DefaultPose, is_initialized |-> FALSE, problem |-> EmptyProblem],
               solver_ran |-> FALSE, solver_start |-> DefaultPose, frame |-> 0]

\* A call of FindClusters with an empty cluster list.
InitClusters ==
    /\ cl_points \in PointLists
    /\ cl_radius \in {1, 2}
    /\ cl_limits \in LimitSet
    /\ cl_next = 1
    /\ cl_clusters = <<>>
    /\ cl_pre = <<>>
    /\ cl_pc = "loop"
    /\ LocalizerIdle
    /\ FinderIdle
    /\ SortIdle
    /\ CornersIdle

NextClusters ==
    /\ \/ ClusterStep
       \/ ClusterLoopEnd
       \/ ClusterFilter
    /\ UNCHANGED <<locVars, fdVars, pvsVars, fcVars>>

SpecClusters == InitClusters /\ [][NextClusters]_vars

(***************************************************************************)
(* LandmarkFinder::FindCorners                                             *)
(*                                                                         *)
(* An ImgLandmark is [nID, voCorners, voIDPoints] with sequences of        *)
(* points. Lengths are cv::norm values times 1000, rounded down; a score   *)
(* is the float score times 10000, up to that rounding: equal triangles    *)
(* get equal scores, as they do in the float arithmetic of the code.       *)
(***************************************************************************)
\* The largest r in lo..hi with r * r <= n.
RECURSIVE ISqrtIn(_, _, _)
ISqrtIn(n, lo, hi) ==
    IF lo = hi THEN lo
    ELSE LET mid == (lo + hi + 1) \div 2
         IN  IF mid * mid <= n THEN ISqrtIn(n, mid, hi) ELSE ISqrtIn(n, lo, mid - 1)

ISqrt(n) == ISqrtIn(n, 0, 46340)

\* cv::norm of the difference of two points, times 1000.
Norm1000(a, b) == ISqrt(Dist2(a, b) * 1000000)

\* cv::Point::dot and cv::Point::cross.
Dot(a, b) == a[1] * b[1] + a[2] * b[2]

Cross(a, b) == a[1] * b[2] - a[2] * b[1]

Minus(a, b) == <<a[1] - b[1], a[2] - b[2]>>

\* Line 236 with hypotenuseTolerance = 0.8 (line 51): a leg longer than 0.8
\* times the hypotenuse, compared on the squares (25 leg^2 > 16 hyp^2).
UnprobableHypotenuse(pS, pH1, pH2) ==
    \/ 25 * Dist2(pS, pH1) > 16 * Dist2(pH2, pH1)
    \/ 25 * Dist2(pS, pH2) > 16 * Dist2(pH2, pH1)

\* Lines 241-254 with the weights of lines 48-50 (0.6, 30, 3), times 10000,
\* from the three lengths (times 1000) and |s1 . s2|.
ScoreOf(normS1, normS2, nH, dot) ==
    6 * (normS1 + normS2 + nH)
        - 300 * ((((dot * 1000000) \div normS1) * 1000) \div normS2)
        - 30 * Abs(normS1 - normS2)

\* Lines 227-254.
Score(pS, pH1, pH2) ==
    ScoreOf(Norm1000(pS, pH1), Norm1000(pS, pH2), Norm1000(pH2, pH1),
            Abs(Dot(Minus(pS, pH1), Minus(pS, pH2))))

\* score < cornerHypothesesCutoff * best_score, the cutoff a rational
\* <<num, den>>, best_score <<>> while it is still the lowest float.
BelowCutoff(score, cutoff, best) ==
    best # <<>> /\ score * cutoff[2] < cutoff[1] * best[1]

\* Lines 258-277: a scored triple is dropped, or kept and the best score
\* raised. acc is [best, scored].
KeepIfGood(acc, score, i, j, k, cutoff) ==
    IF BelowCutoff(score, cutoff, acc.best) THEN acc
    ELSE [best   |-> IF acc.best = <<>> \/ score > acc.best[1] THEN <<score>> ELSE acc.best,
          scored |-> Append(acc.scored, [score |-> score, i |-> i, j |-> j, k |-> k])]

\* Lines 222-277: the body of the innermost loop.
TryTriple(acc, point_list, i, j, k, cutoff) ==
    IF i = j \/ i = k THEN acc
    ELSE IF UnprobableHypotenuse(point_list[i], point_list[j], point_list[k]) THEN acc
    ELSE KeepIfGood(acc, Score(point_list[i], point_list[j], point_list[k]), i, j, k, cutoff)

\* Lines 219-279: the innermost loop, from k on. (best holds at most one
\* score; looking at it makes TLC compute acc before it goes on.)
RECURSIVE LoopK(_, _, _, _, _, _)
LoopK(acc, point_list, i, j, k, cutoff) ==
    IF k > Len(point_list) \/ Len(acc.best) > 1 THEN acc
    ELSE LoopK(TryTriple(acc, point_list, i, j, k, cutoff), point_list, i, j, k + 1, cutoff)

\* Lines 217-280: the middle loop, from j on.
RECURSIVE LoopJ(_, _, _, _, _)
LoopJ(acc, point_list, i, j, cutoff) ==
    IF j > Len(point_list) \/ Len(acc.best) > 1 THEN acc
    ELSE LoopJ(LoopK(acc, point_list, i, j, j + 1, cutoff), point_list, i, j + 1, cutoff)

\* Lines 215-280: the outer loop, from i on.
RECURSIVE LoopTriples(_, _, _, _)
LoopTriples(acc, point_list, i, cutoff) ==
    IF i > Len(point_list) \/ Len(acc.best) > 1 THEN acc
    ELSE LoopTriples(LoopJ(acc, point_list, i, 1, cutoff), point_list, i + 1, cutoff)

\* Lines 282-283: std::remove_if keeps, in order, the hypotheses not below
\* the cutoff of the final best score.
GoodHypotheses(acc, cutoff) ==
    SelectSeq(acc.scored, LAMBDA h : ~BelowCutoff(h.score, cutoff, acc.best))

\* Lines 261-272 for a scored triple: corners H1, S, H2 and the other points
\* of the cluster, in list order, as id points.
LandmarkOf(point_list, h) ==
    [nID        |-> 0,
     voCorners  |-> <<point_list[h.j], point_list[h.i], point_list[h.k]>>,
     voIDPoints |-> LET idx == SelectSeq([n \in 1..Len(point_list) |-> n],
                                         LAMBDA n : n # h.i /\ n # h.j /\ n # h.k)
                    IN  [m \in 1..Len(idx) |-> point_list[idx[m]]]]

\* Lines 286-291 as written: the winding test reads voIDPoints[0..2] and swaps
\* voIDPoints[0] and voIDPoints[2]. With two id points, index 2 is past the
\* end of the vector: the read yields whatever lies there (garbage) and the
\* swap stores it in voIDPoints[0].
EnsureRhs(lm, garbage) ==
    LET ids == lm.voIDPoints
        p2  == IF Len(ids) >= 3 THEN ids[3] ELSE garbage
    IN  IF Len(ids) < 2 THEN lm
        ELSE IF 0 > Cross(Minus(ids[1], ids[2]), Minus(p2, ids[2]))
        THEN [lm EXCEPT !.voIDPoints =
                IF Len(ids) >= 3 THEN [ids EXCEPT ![1] = ids[3], ![3] = ids[1]]
                                 ELSE [ids EXCEPT ![1] = garbage]]
        ELSE lm

\* Lines 285-293: the first maxCornerHypotheses of the good hypotheses are
\* wound and appended.
EmitHypotheses(point_list, good, maxHyp, garbage) ==
    [m \in 1..Min2(Len(good), maxHyp) |-> EnsureRhs(LandmarkOf(point_list, good[m]), garbage)]

\* The accumulator the loops start from: best_score the lowest float.
NoHypotheses == [best |-> <<>>, scored |-> <<>>]

\* Lines 198-294: the hypotheses FindCorners appends for one cluster.
FindCorners(point_list, cutoff, maxHyp, garbage) ==
    EmitHypotheses(point_list,
                   GoodHypotheses(LoopTriples(NoHypotheses, point_list, 1, cutoff), cutoff),
                   maxHyp, garbage)

(***************************************************************************)
(* LandmarkFinder::parallel_vector_sort, CalculateIdForward,               *)
(* CalculateIdBackward and GetIDs                                          *)
(***************************************************************************)
\* floor(a / b) for b # 0.
FloorDiv(a, b) == IF b > 0 THEN a \div b ELSE (-a) \div (-b)

\* The int(...) conversion of a / b for b > 0: rounds towards zero.
TruncDiv(a, b) == IF a >= 0 THEN a \div b ELSE -((-a) \div b)

Clamp03(n) == IF n < 0 THEN 0 ELSE IF n > 3 THEN 3 ELSE n

\* Lines 391 and 484: (1 << nX) << 4 * nY as a uint16_t.
CellId(nX, nY) == (2 ^ nX) * (16 ^ nY)

\* Lines 568-579: one pass of the comb from index i on (1-based).
\* st is [ids, points, b].
RECURSIVE SortPass(_, _, _)
SortPass(st, stepsize, i) ==
    IF i > Len(st.ids) \/ stepsize + i > Len(st.ids) THEN st
    ELSE IF st.ids[i] > st.ids[i + stepsize]
    THEN SortPass([ids    |-> [st.ids EXCEPT ![i] = st.ids[i + stepsize],
                                             ![i + stepsize] = st.ids[i]],
                   points |-> [st.points EXCEPT ![i] = st.points[i + stepsize],
                                                ![i + stepsize] = st.points[i]],
                   b      |-> TRUE], stepsize, i + 1)
    ELSE SortPass(st, stepsize, i + 1)

\* Lines 580-583: stepsize / 1.3 is truncated to size_t and kept at least 1.
ShrinkStep(stepsize) ==
    LET shrunk == (10 * stepsize) \div 13
    IN  IF shrunk < 1 THEN 1 ELSE shrunk

\* Lines 566-584: the while loop.
RECURSIVE SortLoop(_, _)
SortLoop(st, stepsize) ==
    LET after == SortPass([st EXCEPT !.b = FALSE], stepsize, 1)
    IN  IF after.b THEN SortLoop(after, ShrinkStep(stepsize))
        ELSE after

\* Lines 562-585.
parallel_vector_sort(ids, points) ==
    SortLoop([ids |-> ids, points |-> points, b |-> TRUE], Len(ids) \div 2)

\* The id vectors handed to parallel_vector_sort: cell identifiers of up to
\* MaxSortLen id points, in any order.
SortIdSet == {CellId(0, 1), CellId(1, 1), CellId(2, 1), CellId(1, 2)}

SortInputs ==
    UNION { [1..n -> SortIdSet] : n \in 0..MaxSortLen }

\* A call of parallel_vector_sort, lines 563-565; point n of the input is the
\* pixel (n, 2 * n).
InitSort ==
    /\ pvs_ids \in SortInputs
    /\ pvs_points = [n \in 1..Len(pvs_ids) |-> <<n, 2 * n>>]
    /\ pvs_stepsize = Len(pvs_ids) \div 2
    /\ pvs_in = [ids |-> pvs_ids, points |-> pvs_points]
    /\ pvs_pc = "loop"
    /\ LocalizerIdle
    /\ ClustersIdle
    /\ FinderIdle
    /\ CornersIdle

\* Lines 566-584: one iteration of the while loop.
SortIteration ==
    /\ pvs_pc = "loop"
    /\ LET after == SortPass([ids |-> pvs_ids, points |-> pvs_points, b |-> FALSE],
                             pvs_stepsize, 1)
       IN  /\ pvs_ids' = after.ids
           /\ pvs_points' = after.points
           /\ pvs_pc' = IF after.b THEN "loop" ELSE "done"
    /\ pvs_stepsize' = ShrinkStep(pvs_stepsize)
    /\ UNCHANGED pvs_in

NextSort == SortIteration /\ UNCHANGED <<locVars, clVars, fdVars, fcVars>>

SpecSort == InitSort /\ [][NextSort]_vars

Ascending(ids) == \A n \in 1..(Len(ids) - 1) : ids[n] <= ids[n + 1]

\* The (id, point) pairs of two parallel vectors.
PairsOf(ids, points) == { <<ids[n], points[n]>> : n \in DOMAIN ids }

\* C16: when parallel_vector_sort returns, the ids are in ascending order and
\* every (id, point) pair of the input is still a pair: the points went
\* through the same permutation as the ids.
C16_SortedSamePermutation ==
    pvs_pc = "done" =>
        /\ Ascending(pvs_ids)
        /\ Len(pvs_ids) = Len(pvs_in.ids) /\ Len(pvs_points) = Len(pvs_in.points)
        /\ PairsOf(pvs_ids, pvs_points) = PairsOf(pvs_in.ids, pvs_in.points)

\* Lines 411-417 and 507-514: std::find and erase of the first occurrence.
FindId(valid_ids, id) ==
    LET hits == {n \in 1..Len(valid_ids) : valid_ids[n] = id}
    IN  IF hits = {} THEN 0 ELSE SetMin(hits)

EraseAt(valid_ids, n) ==
    [m \in 1..(Len(valid_ids) - 1) |-> IF m < n THEN valid_ids[m] ELSE valid_ids[m + 1]]

\* The forward decode with line 413 left out: the id stays in the pool.
ClaimIdKeepsPool(valid_ids, id) ==
    [ok |-> FindId(valid_ids, id) # 0, valid_ids |-> valid_ids]

ClaimId(valid_ids, id) ==
    LET n == FindId(valid_ids, id)
    IN  IF n # 0 THEN [ok |-> TRUE,  valid_ids |-> EraseAt(valid_ids, n)]
                 ELSE [ok |-> FALSE, valid_ids |-> valid_ids]

\* Lines 366-384: the cell <<nX, nY>> of an id point. The inverse of the
\* matrix (oTwoOne | oTwoThree) is taken exactly; cv::Mat::inv of a singular
\* matrix is the zero matrix.
ForwardCell(landmark, pPoints) ==
    LET oTwoOne   == Minus(landmark.voCorners[1], landmark.voCorners[2])
        oTwoThree == Minus(landmark.voCorners[3], landmark.voCorners[2])
        det == Cross(oTwoOne, oTwoThree)
        rel == Minus(pPoints, landmark.voCorners[2])
        xNum == oTwoThree[2] * rel[1] - oTwoThree[1] * rel[2]
        yNum == oTwoOne[1] * rel[2] - oTwoOne[2] * rel[1]
    IN  IF det = 0 THEN <<3, 0>>
        ELSE <<Clamp03(FloorDiv(4 * (det - xNum), det)), Clamp03(FloorDiv(4 * yNum, det))>>

\* Lines 324-418. The result is [ok, landmark, valid_ids].
CalculateIdForward(landmark, valid_ids) ==
    LET pts == landmark.voIDPoints
        pPointsIDs == [n \in 1..Len(pts) |->
                         LET c == ForwardCell(landmark, pts[n]) IN CellId(c[1], c[2])]
        ID     == SumSeq(pPointsIDs) % 65536
        sorted == parallel_vector_sort(pPointsIDs, pts)
        claim  == ClaimId(valid_ids, ID)
    IN  [ok        |-> claim.ok,
         landmark  |-> [landmark EXCEPT !.nID = ID, !.voIDPoints = sorted.points],
         valid_ids |-> claim.valid_ids]

\* Line 461 and the loop order of lines 458-459: nX outermost.
BackwardCells ==
    SelectSeq([n \in 1..16 |-> <<(n - 1) \div 4, (n - 1) % 4>>],
              LAMBDA c : c # <<0, 0>> /\ c # <<0, 3>> /\ c # <<3, 0>>)

\* Lines 465-473: the pixel looked at for cell <<nX, nY>>, with 0.333 for a
\* third and int() rounding towards zero.
BackwardIndex(corners, c) ==
    LET oTwoOne   == Minus(corners[1], corners[2])
        oTwoThree == Minus(corners[3], corners[2])
        x == 1000 * corners[2][1] + 333 * (c[1] * oTwoOne[1] + c[2] * oTwoThree[1])
        y == 1000 * corners[2][2] + 333 * (c[1] * oTwoOne[2] + c[2] * oTwoThree[2])
    IN  <<TruncDiv(x, 1000), TruncDiv(y, 1000)>>

\* Lines 478-487: the cell's pixel lies inside grayImage_ and is brighter than
\* the threshold.
Lit(image, Index) ==
    /\ ~(0 > Index[1] \/ 0 > Index[2] \/ image.cols <= Index[1] \/ image.rows <= Index[2])
    /\ Index \in image.bright

\* Lines 424-515. The result is [ok, landmark, valid_ids].
CalculateIdBackward(landmark, valid_ids, image) ==
    LET c1 == landmark.voCorners[1]
        c2 == landmark.voCorners[2]
        c3 == landmark.voCorners[3]
        corners == IF 0 > Cross(Minus(c1, c2), Minus(c3, c2)) THEN <<c3, c2, c1>>
                   ELSE landmark.voCorners
        lit == SelectSeq(BackwardCells, LAMBDA c : Lit(image, BackwardIndex(corners, c)))
        pPointsIDs == [n \in 1..Len(lit) |-> CellId(3 - lit[n][1], lit[n][2])]
        points     == [n \in 1..Len(lit) |-> BackwardIndex(corners, lit[n])]
        nThisID    == SumSeq(pPointsIDs) % 65536
        sorted     == parallel_vector_sort(pPointsIDs, points)
        claim      == ClaimId(valid_ids, nThisID)
    IN  [ok        |-> claim.ok,
         landmark  |-> [nID |-> nThisID, voCorners |-> corners, voIDPoints |-> sorted.points],
         valid_ids |-> claim.valid_ids]

\* Lines 539-548: the first pass from landmark n on. st is
\* [landmarks, landmarksInQueue, validIDs].
RECURSIVE ForwardPass(_, _, _)
ForwardPass(st, lms, n) ==
    IF n > Len(lms) THEN st
    ELSE LET r == CalculateIdForward(lms[n], st.validIDs)
         IN  IF r.ok
             THEN ForwardPass([landmarks        |-> Append(st.landmarks, r.landmark),
                               landmarksInQueue |-> st.landmarksInQueue,
                               validIDs         |-> r.valid_ids], lms, n + 1)
             ELSE ForwardPass([landmarks        |-> st.landmarks,
                               landmarksInQueue |-> Append(st.landmarksInQueue, r.landmark),
                               validIDs         |-> r.valid_ids], lms, n + 1)

\* Lines 551-557: the second pass from queued landmark n on.
RECURSIVE BackwardPass(_, _, _)
BackwardPass(st, image, n) ==
    IF n > Len(st.landmarksInQueue) THEN st
    ELSE LET r == CalculateIdBackward(st.landmarksInQueue[n], st.validIDs, image)
         IN  IF r.ok
             THEN BackwardPass([st EXCEPT !.landmarks = Append(@, r.landmark),
                                          !.validIDs  = r.valid_ids], image, n + 1)
             ELSE BackwardPass([st EXCEPT !.validIDs = r.valid_ids], image, n + 1)

\* GetIDs with one loop instead of two: a landmark whose forward decode fails
\* is decoded backward at once, before the next landmark is decoded forward.
RECURSIVE InterleavedPass(_, _, _, _)
InterleavedPass(st, lms, image, n) ==
    IF n > Len(lms) \/ Len(st.landmarksInQueue) > n THEN st
    ELSE InterleavedPass(
            BackwardPass(ForwardPass(st, <<lms[n]>>, 1), image, Len(st.landmarksInQueue) + 1),
            lms, image, n + 1)

GetIDsStateInterleaved(lms, valid_ids, image) ==
    InterleavedPass([landmarks |-> <<>>, landmarksInQueue |-> <<>>, validIDs |-> valid_ids],
                    lms, image, 1)

\* Lines 521-560: the landmarks vector after GetIDs, and the pool it ends with.
GetIDsState(lms, valid_ids, image) ==
    BackwardPass(ForwardPass([landmarks |-> <<>>, landmarksInQueue |-> <<>>,
                              validIDs |-> valid_ids], lms, 1), image, 1)

GetIDs(lms, valid_ids, image) == GetIDsState(lms, valid_ids, image).landmarks

(***************************************************************************)
(* LandmarkFinder::FindPoints, FindLandmarks and DetectLandmarks           *)
(*                                                                         *)
(* An image is [data, cols, rows, nonZero, bright]: data is cv::Mat::data   *)
(* being non-null, bright the pixels whose gray value exceeds the          *)
(* threshold, nonZero the pixels that cv::boxFilter, the subtraction and   *)
(* cv::threshold (lines 109-130) leave non-zero in binaryImage_.           *)
(***************************************************************************)
\* cv::findNonZero, line 133: the non-zero pixels row by row.
RECURSIVE RowMajor(_)
RowMajor(S) ==
    IF S = {} THEN <<>>
    ELSE LET first == CHOOSE p \in S : \A q \in S : p[2] < q[2] \/ (p[2] = q[2] /\ p[1] <= q[1])
         IN  <<first>> \o RowMajor(S \ {first})

\* cvRound of num / den for den > 0: to the nearest integer, ties to even.
RoundHalfEven(num, den) ==
    LET q == FloorDiv(num, den)
        r == num - q * den
    IN  IF 2 * r < den THEN q
        ELSE IF 2 * r > den THEN q + 1
        ELSE IF q % 2 = 0 THEN q ELSE q + 1

\* Lines 144-146: the sum of a cluster's pixels times 1. / size, converted
\* back to an integer point.
Centroid(pixels, c) ==
    <<RoundHalfEven(SumSeq([k \in 1..Len(c) |-> pixels[c[k]][1]]), Len(c)),
      RoundHalfEven(SumSeq([k \in 1..Len(c) |-> pixels[c[k]][2]]), Len(c))>>

\* Lines 127-148 with the constructor's maxRadiusForPixelCluster = 3,
\* minPixelForCluster = 1, maxPixelForCluster = 1000 (lines 38-40).
FindPoints(image) ==
    LET pixels == RowMajor(image.nonZero)
        clusteredPixels == FindClusters(pixels, <<>>, 3, 1, 1000)
    IN  [n \in 1..Len(clusteredPixels) |-> Centroid(pixels, clusteredPixels[n])]

\* Line 88 with maxRadiusForCluster = 40, minPointsPerLandmark = 5,
\* maxPointsPerLandmark = 9 (lines 41-43): the clusters as vectors of points.
PointClusters(points) ==
    LET cs == FindClusters(points, <<>>, 40, 5, 9)
    IN  [n \in 1..Len(cs) |-> [k \in 1..Len(cs[n]) |-> points[cs[n][k]]]]

\* Lines 301-312 with cornerHypothesesCutoff = 1.0 and maxCornerHypotheses = 10
\* (lines 46-47): landmarkHypotheses_ from cluster n on.
RECURSIVE HypothesesFrom(_, _, _)
HypothesesFrom(clusteredPoints, n, garbage) ==
    IF n > Len(clusteredPoints) THEN <<>>
    ELSE FindCorners(clusteredPoints[n], <<1, 1>>, 10, garbage)
            \o HypothesesFrom(clusteredPoints, n + 1, garbage)

\* GetIDs working on valid_ids_ itself: the member is left as the pool that
\* the two passes end with.
MemberAfterGetIDsShared(valid_ids, st) == st.validIDs

\* Line 530: validIDs is a copy of valid_ids_, so the member is after GetIDs
\* what it was before, whatever the passes erased from the copy.
MemberAfterGetIDs(valid_ids, st) == valid_ids

\* Lines 313-317 for the state st that GetIDs ends in.
Identified(hyps, valid_ids, st) ==
    [landmarkHypotheses |-> hyps, OutputLandmarks |-> st.landmarks,
     valid_ids |-> MemberAfterGetIDs(valid_ids, st)]

\* Lines 313-317: [landmarkHypotheses_, OutputLandmarks, valid_ids_] once the
\* hypotheses are collected.
IdentifyHypotheses(hyps, valid_ids, image) ==
    Identified(hyps, valid_ids, GetIDsState(hyps, valid_ids, image))

\* Lines 300-318.
FindLandmarks(clusteredPoints, valid_ids, image, garbage) ==
    IdentifyHypotheses(HypothesesFrom(clusteredPoints, 1, garbage), valid_ids, image)

(***************************************************************************)
(* The frames a LandmarkFinder is shown. A marker is a 4 x 4 grid of dots, *)
(* four pixels apart, with the corner cells <<0,0>>, <<3,0>>, <<0,3>>      *)
(* always lit; each dot is one non-zero pixel of binaryImage_, and either  *)
(* one bright pixel or a 3 x 3 bright patch of grayImage_.                 *)
(***************************************************************************)
\* The grid axes of a marker in the image, for its four orientations.
Rotations ==
    << << <<1, 0>>, <<0, 1>> >>, << <<0, 1>>, <<-1, 0>> >>,
       << <<-1, 0>>, <<0, -1>> >>, << <<0, -1>>, <<1, 0>> >> >>

MarkerDots(O, rot, cells) ==
    { <<O[1] + 4 * (c[1] * Rotations[rot][1][1] + c[2] * Rotations[rot][2][1]),
        O[2] + 4 * (c[1] * Rotations[rot][1][2] + c[2] * Rotations[rot][2][2])>> :
      c \in {<<0, 0>>, <<3, 0>>, <<0, 3>>} \cup cells }

Patch(S) == UNION { { <<p[1] + dx, p[2] + dy>> : dx \in -1..1, dy \in -1..1 } : p \in S }

Image(dots, blurred) ==
    [data |-> TRUE, cols |-> 120, rows |-> 40, nonZero |-> dots,
     bright |-> IF blurred THEN Patch(dots) ELSE dots]

\* The lit id cells of the markers: ids 1120, 16900, 576 and 5728. The last
\* has its fourth corner lit and looks the same from all four corners.
Pattern1120  == {<<1, 1>>, <<2, 1>>, <<1, 2>>}

Pattern16900 == {<<1, 0>>, <<2, 2>>, <<1, 3>>}

Pattern576   == {<<1, 1>>, <<2, 2>>}

Pattern5728  == {<<3, 3>>, <<1, 1>>, <<2, 2>>, <<1, 2>>, <<2, 1>>}

\* The marker on the left of the frame, and the one on the right (more than
\* maxRadiusForCluster away), which may be missing.
LeftMarkers ==
    { MarkerDots(<<20, 20>>, 1, Pattern1120), MarkerDots(<<20, 20>>, 2, Pattern16900),
      MarkerDots(<<20, 20>>, 2, Pattern576),  MarkerDots(<<20, 20>>, 1, Pattern5728) }

RightMarkers == { {}, MarkerDots(<<90, 20>>, 1, Pattern1120) }

\* Two markers of id 16900, blurred: the left one turned so that its corners
\* come out left-handed, the right one upright.
TwoOf16900 ==
    Image(MarkerDots(<<20, 20>>, 2, Pattern16900) \cup MarkerDots(<<90, 20>>, 1, Pattern16900), TRUE)

\* One marker of id 1120, sharp, turned by a quarter.
Turned1120 == Image(MarkerDots(<<20, 20>>, 2, Pattern1120), FALSE)

FrameImages ==
    { Image(l \cup r, blurred) : l \in LeftMarkers, r \in RightMarkers, blurred \in BOOLEAN }
        \cup {TwoOf16900, Turned1120, NoImage}

\* What a read past the end of voIDPoints may yield. It is read only for a
\* cluster of five points (two id points).
Garbage == { <<0, 0>>, <<0, 100>> }

GarbageOf(clusteredPoints) ==
    IF \E n \in DOMAIN clusteredPoints : Len(clusteredPoints[n]) = 5 THEN Garbage ELSE {<<0, 0>>}

\* The map's ids, in the order of std::map (constructor, lines 54-57).
ValidIdLists == { <<576, 1120, 5728, 16900>>, <<1120, 16900>> }

\* Lines 71-103.
DetectLandmarks ==
    /\ nFrames < MaxFrames
    /\ \E img \in FrameImages :
         IF ~img.data
         THEN /\ grayImage_' = img
              /\ clusteredPixels_' = <<>>
              /\ clusteredPoints_' = <<>>
              /\ dl_ret' = -1
              /\ UNCHANGED <<landmarkHypotheses_, detected_landmarks, valid_ids_>>
         ELSE LET points   == FindPoints(img)
                  clusters == PointClusters(points)
              IN  \E garbage \in GarbageOf(clusters) :
                    LET found == FindLandmarks(clusters, valid_ids_, img, garbage)
                    IN  /\ grayImage_' = img
                        /\ clusteredPixels_' = points
                        /\ clusteredPoints_' = clusters
                        /\ landmarkHypotheses_' = found.landmarkHypotheses
                        /\ detected_landmarks' = found.OutputLandmarks
                        /\ dl_ret' = 0
                        /\ valid_ids_' = found.valid_ids
    /\ nFrames' = nFrames + 1
    /\ claimed_earlier' = claimed_earlier \cup
                              { detected_landmarks[n].nID : n \in DOMAIN detected_landmarks }

\* The state after LandmarkFinder's constructor (lines 31-58), the caller's
\* vector empty.
InitFinder ==
    /\ valid_ids_ \in ValidIdLists
    /\ grayImage_ = NoImage
    /\ clusteredPixels_ = <<>>
    /\ clusteredPoints_ = <<>>
    /\ landmarkHypotheses_ = <<>>
    /\ detected_landmarks = <<>>
    /\ dl_ret = 0
    /\ nFrames = 0
    /\ claimed_earlier = {}
    /\ LocalizerIdle
    /\ ClustersIdle
    /\ SortIdle
    /\ CornersIdle

NextFinder == DetectLandmarks /\ UNCHANGED <<locVars, clVars, pvsVars, fcVars>>

SpecFinder == InitFinder /\ [][NextFinder]_vars

(***************************************************************************)
(* One call of FindCorners on a cluster, the two public configuration      *)
(* fields set by the caller.                                               *)
(***************************************************************************)
\* Five dots in a row, 4 pixels apart.
DotsInLine == [n \in 1..5 |-> <<4 * n, 20>>]

\* The clusters handed to FindCorners: the dots of one marker in the order
\* FindPoints finds them, or the row of dots.
CornerClusters ==
    { RowMajor(MarkerDots(<<20, 20>>, rot, cells)) :
          rot \in 1..4, cells \in {Pattern1120, Pattern16900, Pattern576, Pattern5728} }
        \cup {DotsInLine}

\* cornerHypothesesCutoff: 1.0 (line 46) and 0.5.
CutoffSet == { <<1, 1>>, <<1, 2>> }

\* maxCornerHypotheses: 10 (line 47) and smaller ones.
MaxHypSet == {1, 2, 10}

InitCorners ==
    /\ fc_point_list \in CornerClusters
    /\ fc_cutoff \in CutoffSet
    /\ fc_maxHyp \in MaxHypSet
    /\ fc_hypotheses = <<>>
    /\ fc_pc = "call"
    /\ LocalizerIdle
    /\ ClustersIdle
    /\ FinderIdle
    /\ SortIdle

\* Lines 198-294.
FindCornersCall ==
    /\ fc_pc = "call"
    /\ \E garbage \in GarbageOf(<<fc_point_list>>) :
          fc_hypotheses' = FindCorners(fc_point_list, fc_cutoff, fc_maxHyp, garbage)
    /\ fc_pc' = "done"
    /\ UNCHANGED <<fc_point_list, fc_cutoff, fc_maxHyp>>

NextCorners == FindCornersCall /\ UNCHANGED <<locVars, clVars, fdVars, pvsVars>>

SpecCorners == InitCorners /\ [][NextCorners]_vars

\* The triples <<i, j, k>> (S, H1, H2) of lines 215-225 that pass the
\* hypotenuse filter of line 236.
PassingTriples(point_list) ==
    { tr \in (DOMAIN point_list) \X (DOMAIN point_list) \X (DOMAIN point_list) :
         /\ tr[2] < tr[3] /\ tr[1] # tr[2] /\ tr[1] # tr[3]
         /\ ~UnprobableHypotenuse(point_list[tr[1]], point_list[tr[2]], point_list[tr[3]]) }

TripleScore(point_list, tr) == Score(point_list[tr[1]], point_list[tr[2]], point_list[tr[3]])

\* The largest score of a passing triple.
MaxScore(point_list) ==
    LET scores == { TripleScore(point_list, tr) : tr \in PassingTriples(point_list) }
    IN  CHOOSE s \in scores : \A o \in scores : o <= s

\* The hypothesis has the corners of the triple.
HasCorners(lm, point_list, tr) ==
    lm.voCorners = <<point_list[tr[2]], point_list[tr[1]], point_list[tr[3]]>>

\* C19: when at least one triple of the cluster passes the hypotenuse filter,
\* the hypotheses FindCorners emits include a triple of maximal score, for
\* every cutoff in (0, 1] and every maxCornerHypotheses >= 1.
C19_BestTripleEmitted ==
    (fc_pc = "done" /\ PassingTriples(fc_point_list) # {}) =>
        \E n \in DOMAIN fc_hypotheses : \E tr \in PassingTriples(fc_point_list) :
            /\ HasCorners(fc_hypotheses[n], fc_point_list, tr)
            /\ TripleScore(fc_point_list, tr) = MaxScore(fc_point_list)

(***************************************************************************)
(* Claims about DetectLandmarks, under SpecFinder.                         *)
(***************************************************************************)
\* The id CalculateIdForward computes for a hypothesis, whatever the pool.
ForwardId(h) == CalculateIdForward(h, <<>>).landmark.nID

\* The last call ran on a valid image.
LastFrameValid == nFrames > 0 /\ grayImage_.data

\* The observations of the output that carry identity id.
Carrying(id) == { n \in DOMAIN detected_landmarks : detected_landmarks[n].nID = id }

\* The hypotheses whose points forward-decode to id.
Decoding(id) == { n \in DOMAIN landmarkHypotheses_ : ForwardId(landmarkHypotheses_[n]) = id }

ValidIds == { valid_ids_[n] : n \in DOMAIN valid_ids_ }

\* C1: in the output of a DetectLandmarks call no two observations carry the
\* same identity, and when two or more corner hypotheses forward-decode to the
\* same valid identity, exactly one observation of the output carries it.
C1_IdentityUnique ==
    LastFrameValid =>
        /\ \A m, n \in DOMAIN detected_landmarks :
             m # n => detected_landmarks[m].nID # detected_landmarks[n].nID
        /\ \A id \in ValidIds :
             Cardinality(Decoding(id)) >= 2 => Cardinality(Carrying(id)) = 1

\* Hypothesis n was built from the points of cluster c.
FromCluster(n, c) ==
    landmarkHypotheses_[n].voCorners[2] \in { clusteredPoints_[c][k] : k \in DOMAIN clusteredPoints_[c] }

\* The frame holds two clusters whose hypotheses decode forward to one valid
\* identity, and one observation of the output carries it.
C1_Witness ==
    /\ LastFrameValid
    /\ Len(clusteredPoints_) = 2
    /\ \E id \in ValidIds : \E m, n \in Decoding(id) :
          FromCluster(m, 1) /\ FromCluster(n, 2) /\ Cardinality(Carrying(id)) = 1

\* C5: when DetectLandmarks rejects its image as invalid it returns the error
\* code and the caller's vector is empty on return.
C5_InvalidImageEmptiesOutput ==
    (nFrames > 0 /\ ~grayImage_.data) => (dl_ret = -1 /\ detected_landmarks = <<>>)

\* GetIDs when its first loop has ended (line 548), on the hypotheses and the
\* image of the last frame.
AfterForward ==
    ForwardPass([landmarks |-> <<>>, landmarksInQueue |-> <<>>, validIDs |-> valid_ids_],
                landmarkHypotheses_, 1)

\* The identity the backward decode reads for a queued landmark, whatever the pool.
BackwardId(q) == CalculateIdBackward(q, <<>>, grayImage_).landmark.nID

\* Observation n of the output is the backward decode of a queued landmark,
\* accepted against the pool the first loop left.
BackwardDecoded(n) ==
    \E k \in DOMAIN AfterForward.landmarksInQueue :
        LET r == CalculateIdBackward(AfterForward.landmarksInQueue[k], AfterForward.validIDs, grayImage_)
        IN  r.ok /\ r.landmark = detected_landmarks[n]

\* C11: every hypothesis is decoded forward before any is decoded backward:
\* the output starts with the observations the forward pass accepted, every
\* hypothesis is either among them or queued, and every further observation is
\* the backward decode of a queued one, with an identity the forward pass left
\* in the pool and that no forward-decoded observation carries.
C11_ForwardBeforeBackward ==
    LastFrameValid =>
        /\ Len(AfterForward.landmarks) + Len(AfterForward.landmarksInQueue) = Len(landmarkHypotheses_)
        /\ Len(detected_landmarks) >= Len(AfterForward.landmarks)
        /\ SubSeq(detected_landmarks, 1, Len(AfterForward.landmarks)) = AfterForward.landmarks
        /\ \A n \in (Len(AfterForward.landmarks) + 1)..Len(detected_landmarks) :
             /\ BackwardDecoded(n)
             /\ FindId(AfterForward.validIDs, detected_landmarks[n].nID) # 0
             /\ \A m \in 1..Len(AfterForward.landmarks) :
                  detected_landmarks[m].nID # detected_landmarks[n].nID

\* A hypothesis fails its forward decode, its backward decode reads an identity
\* that a later hypothesis claims by forward decode, and the output carries
\* that identity on the later one.
C11_Witness ==
    /\ LastFrameValid
    /\ \E m, n \in DOMAIN landmarkHypotheses_ :
          /\ m < n
          /\ FindId(valid_ids_, ForwardId(landmarkHypotheses_[m])) = 0
          /\ FindId(valid_ids_, ForwardId(landmarkHypotheses_[n])) # 0
          /\ \E q \in DOMAIN AfterForward.landmarksInQueue :
                /\ AfterForward.landmarksInQueue[q].voCorners = landmarkHypotheses_[m].voCorners
                /\ BackwardId(AfterForward.landmarksInQueue[q]) = ForwardId(landmarkHypotheses_[n])
          /\ \E o \in DOMAIN AfterForward.landmarks :
                /\ detected_landmarks[o].voCorners = landmarkHypotheses_[n].voCorners
                /\ detected_landmarks[o].nID = ForwardId(landmarkHypotheses_[n])

\* The corners H1, S, H2 of an observation wind right-handed.
RightHanded(lm) ==
    Cross(Minus(lm.voCorners[1], lm.voCorners[2]), Minus(lm.voCorners[3], lm.voCorners[2])) >= 0

\* C12: every hypothesis of the corner search and every observation returned by
\* DetectLandmarks has its three corners in right-handed winding.
C12_CornersRightHanded ==
    LastFrameValid =>
        /\ \A n \in DOMAIN landmarkHypotheses_ : RightHanded(landmarkHypotheses_[n])
        /\ \A n \in DOMAIN detected_landmarks : RightHanded(detected_landmarks[n])

\* The legs of the corner triangle can be cut in exact thirds.
ThirdsExact(lm) ==
    \A n \in {1, 3} : \A c \in 1..2 : (lm.voCorners[n][c] - lm.voCorners[2][c]) % 3 = 0

\* The nominal image position of grid cell c = <<nX, nY>> (numbered as in lines
\* 458-459): corners[1] plus nX thirds of the first leg and nY thirds of the
\* second.
NominalPosition(lm, c) ==
    <<lm.voCorners[2][1] + (c[1] * (lm.voCorners[1][1] - lm.voCorners[2][1])
                          + c[2] * (lm.voCorners[3][1] - lm.voCorners[2][1])) \div 3,
      lm.voCorners[2][2] + (c[1] * (lm.voCorners[1][2] - lm.voCorners[2][2])
                          + c[2] * (lm.voCorners[3][2] - lm.voCorners[2][2])) \div 3>>

\* Cell c is a set bit of identity id (line 484).
BitSet(id, c) == (id \div CellId(3 - c[1], c[2])) % 2 = 1

CellsOf(id) == { BackwardCells[n] : n \in { m \in DOMAIN BackwardCells : BitSet(id, BackwardCells[m]) } }

\* The hypothesis is a marker of identity id drawn exactly: right-handed
\* corners, its id points the nominal positions of the set bits of id, and the
\* image bright at those positions and nowhere else around the grid cells.
ExactMarker(lm, id) ==
    /\ RightHanded(lm)
    /\ ThirdsExact(lm)
    /\ { lm.voIDPoints[n] : n \in DOMAIN lm.voIDPoints } = { NominalPosition(lm, c) : c \in CellsOf(id) }
    /\ Len(lm.voIDPoints) = Cardinality(CellsOf(id))
    /\ \A n \in DOMAIN BackwardCells :
          Patch({NominalPosition(lm, BackwardCells[n])}) \cap grayImage_.bright
              = IF BitSet(id, BackwardCells[n]) THEN {NominalPosition(lm, BackwardCells[n])} ELSE {}

\* C13: a marker of a valid identity drawn exactly is decoded to that identity
\* by the forward decode, and the backward decode on its image reads the
\* same identity.
C13_IdentityRoundTrip ==
    LastFrameValid =>
        \A n \in DOMAIN landmarkHypotheses_ : \A id \in ValidIds :
            ExactMarker(landmarkHypotheses_[n], id) =>
                /\ ForwardId(landmarkHypotheses_[n]) = id
                /\ BackwardId(landmarkHypotheses_[n]) = id

\* C18: the winding step of FindCorners indexes voIDPoints at 0, 1 and 2; for
\* every hypothesis it emits, of a cluster of 5 to 9 points, these indices
\* are below the length of the hypothesis's id point list.
C18_IdPointIndexInBounds ==
    \A n \in DOMAIN landmarkHypotheses_ :
        Len(landmarkHypotheses_[n].voCorners) + Len(landmarkHypotheses_[n].voIDPoints) \in 5..9
            => 2 < Len(landmarkHypotheses_[n].voIDPoints)

\* C20: the pool of identities is per frame. A DetectLandmarks call leaves
\* valid_ids_ as it was, and the output of every call on a valid image is what
\* the two passes yield when they start from the whole of valid_ids_, so that
\* an identity claimed in one frame is free again in the next.
C20_PoolIsPerFrame ==
    /\ [][valid_ids_' = valid_ids_]_vars
    /\ [](LastFrameValid =>
             detected_landmarks = GetIDs(landmarkHypotheses_, valid_ids_, grayImage_))

\* The output of the last call carries an identity that the output of an
\* earlier call carried.
C20_Witness ==
    /\ LastFrameValid
    /\ \E n \in DOMAIN detected_landmarks : detected_landmarks[n].nID \in claimed_earlier

(***************************************************************************)
(* Claims about FindClusters, under SpecClusters.                          *)
(***************************************************************************)
\* The clusters before the size filter, once the outer loop has ended.
PreFilter == IF cl_pc = "done" THEN cl_pre ELSE cl_clusters

\* The places <<cluster, position>> of the pre-filter clusters that hold
\* input index i.
PlacesOf(i) ==
    { <<c, k>> \in (DOMAIN PreFilter) \X (1..Len(cl_points)) :
        k \in DOMAIN PreFilter[c] /\ PreFilter[c][k] = i }

\* The pre-filter cluster of input index i.
ClusterOf(i) == CHOOSE c \in DOMAIN PreFilter : \E k \in DOMAIN PreFilter[c] : PreFilter[c][k] = i

Near(i, j) == WithinRadius(cl_points[i], cl_points[j], cl_radius)

\* C9: started with an empty cluster list, FindClusters has put every input
\* point (by input index) in exactly one cluster, exactly once, when the size
\* filter starts: the pre-filter clusters are pairwise disjoint, their union
\* is the whole input, and they hold nothing else.
C9_PreFilterPartition ==
    cl_pc # "loop" =>
        /\ \A i \in DOMAIN cl_points : Cardinality(PlacesOf(i)) = 1
        /\ \A c \in DOMAIN PreFilter : \A k \in DOMAIN PreFilter[c] : PreFilter[c][k] \in DOMAIN cl_points
        /\ \A c \in DOMAIN PreFilter : PreFilter[c] # <<>>

\* C9's case: a finished run in which some point lay within the radius of
\* members of two different clusters when it was inserted.
C9_Witness ==
    /\ cl_pc = "done"
    /\ \E i, a, b \in DOMAIN cl_points :
          /\ a < i /\ b < i
          /\ Near(i, a) /\ Near(i, b)
          /\ ClusterOf(a) # ClusterOf(b)

\* C10 as stated: two points p and q that each lie within the radius of a
\* point m of some pre-filter cluster are in the same pre-filter cluster.
C10_CommonNeighbourSameCluster ==
    cl_pc # "loop" =>
        \A p, q, m \in DOMAIN cl_points :
            (Near(p, m) /\ Near(q, m)) => ClusterOf(p) = ClusterOf(q)

\* When point p is inserted, no cluster created after the cluster of m holds
\* a point within the radius of p.
NoNewerClaim(p, m) ==
    \A j \in DOMAIN cl_points :
        (j < p /\ Near(p, j)) => ClusterOf(j) <= ClusterOf(m)

\* C10 as amended: two points p and q that each lie within the radius of a
\* point m inserted before both of them, and that no cluster created after
\* the cluster of m claims at their insertion, are in the same pre-filter
\* cluster, the one of m.
C10_EarlierNeighbourSameCluster ==
    cl_pc # "loop" =>
        \A p, q, m \in DOMAIN cl_points :
            (/\ m < p /\ m < q
             /\ Near(p, m) /\ Near(q, m)
             /\ NoNewerClaim(p, m) /\ NoNewerClaim(q, m))
            => (ClusterOf(p) = ClusterOf(m) /\ ClusterOf(q) = ClusterOf(m))

\* C10's case: p and q join the cluster of an earlier m although p is also
\* within the radius of a point of an older cluster.
C10_Witness ==
    /\ cl_pc = "done"
    /\ \E p, q, m, o \in DOMAIN cl_points :
          /\ m < p /\ m < q /\ p # q /\ o < p
          /\ Near(p, m) /\ Near(q, m)
          /\ NoNewerClaim(p, m) /\ NoNewerClaim(q, m)
          /\ Near(p, o) /\ ClusterOf(o) < ClusterOf(m)
          /\ ClusterOf(p) = ClusterOf(q)
====
